---- MODULE Spec2Model ----
(***************************************************************************)
(* Model of the audio core of paparapa_tts.py: the clip fitter             *)
(* (fit_clip_samples / speed_up_samples), the canvas assembler             *)
(* (assemble_tts_track) and the track mixer (mix_audio_tracks).            *)
(*                                                                         *)
(* Sample buffers are sequences of integers.  numpy's fixed-width integer  *)
(* arithmetic is modelled with its width: int32 products and sums wrap     *)
(* modulo 2^32.  Python's float64 expressions are modelled by the integer  *)
(* value they produce (see IntOfRatio, new_len).                           *)
(***************************************************************************)
EXTENDS Integers, Sequences, FiniteSets, TLC

\* ------------------------------------------------------------------------
\* Program constants
\* ------------------------------------------------------------------------
SAMPLE_RATE == 22050

MS_PER_SECOND == 1000

MIN_WINDOW_MS == 200

MAX_SPEED_FACTOR == 3

INT16_MIN == -32768

INT16_MAX == 32767

INT32_MAX == 2147483647

PERCENT == 100

MIN_CLIP_BYTES == 100

\* ------------------------------------------------------------------------
\* Bounds of the model
\* ------------------------------------------------------------------------
MaxClipLen == 2

MaxCues == 2

MaxMixLen == 2

\* ------------------------------------------------------------------------
\* Arithmetic helpers
\* ------------------------------------------------------------------------
Min(a, b) == IF a <= b THEN a ELSE b

Max(a, b) == IF a >= b THEN a ELSE b

\* int(a / b) for integers a and b > 0: Python's true division followed by
\* int(), which truncates toward zero.
IntOfRatio(a, b) == IF a >= 0 THEN a \div b ELSE -((-a) \div b)

\* floor(log2(n)) for n >= 1
RECURSIVE Log2(_)
Log2(n) == IF n <= 1 THEN 0 ELSE 1 + Log2(n \div 2)

RECURSIVE Pow2(_)
Pow2(n) == IF n <= 0 THEN 1 ELSE 2 * Pow2(n - 1)

\* int(SAMPLE_RATE * window_ms / 1000)
window_samples(window_ms) == IntOfRatio(SAMPLE_RATE * window_ms, MS_PER_SECOND)

\* ------------------------------------------------------------------------
\* speed_up_samples
\* ------------------------------------------------------------------------
\* The speed factor without the cap: len(samples) / window_samples
capped_speed_factor_uncapped(len, ws) == [num |-> len, den |-> ws]

\* A speed factor is the float64 nearest num/den, written [num, den].
\* speed_factor = min(len(samples) / window_samples, 3.0): the quotient of two
\* positive integers rounds to 3.0 or more exactly when it is 3 or more.
capped_speed_factor(len, ws) ==
    IF len >= MAX_SPEED_FACTOR * ws
    THEN [num |-> MAX_SPEED_FACTOR, den |-> 1]
    ELSE [num |-> len, den |-> ws]

\* Long division of num * 2^bits by den: the remainder and the lowest bit of
\* the quotient, from the state <<remainder, bit>> of num divided by den.
RECURSIVE ShiftDiv(_, _, _)
ShiftDiv(rb, den, bits) ==
    IF bits = 0 THEN rb
    ELSE LET r2 == 2 * rb[1]
         IN  IF r2 >= den THEN ShiftDiv(<<r2 - den, 1>>, den, bits - 1)
                          ELSE ShiftDiv(<<r2, 0>>, den, bits - 1)

\* int(old_len / speed_factor) in float64.
\*  - speed_factor = 3.0: the quotient old_len / 3.0 is correctly rounded and
\*    at least 1/3 away from the next integer unless it is one, so the result
\*    is floor(old_len / 3).
\*  - speed_factor = fl(old_len / ws) with ws < old_len < 3 * ws: the 53-bit
\*    quotient q = M / 2^(52-k) has M = round-half-even(old_len * 2^(52-k) / ws)
\*    where k = floor(log2(old_len / ws)).  fl(old_len / q) is ws unless q was
\*    rounded up by rho / ws units in the last place with
\*    rho * ws > old_len * 2^(e-1-k), e = floor(log2(ws)); then it is the
\*    float64 just below ws and int() gives ws - 1.
new_len(old_len, speed_factor) ==
    IF speed_factor.den = 1 THEN old_len \div speed_factor.num
    ELSE LET ws  == speed_factor.den
             k   == IF old_len >= 2 * ws THEN 1 ELSE 0
             e   == Log2(ws)
             rb  == ShiftDiv(<<old_len % ws, (old_len \div ws) % 2>>, ws, 52 - k)
             r   == rb[1]
             up  == IF 2 * r < ws THEN FALSE
                    ELSE IF 2 * r > ws THEN TRUE
                    ELSE rb[2] = 1
             rho == ws - r
         IN  IF (~up) \/ r = 0 THEN ws
             ELSE IF e - 1 - k >= 0
                  THEN IF rho * ws > old_len * Pow2(e - 1 - k) THEN ws - 1 ELSE ws
                  ELSE IF rho * ws * Pow2(k + 1 - e) > old_len THEN ws - 1 ELSE ws

\* ------------------------------------------------------------------------
\* float64 arithmetic of np.linspace and np.interp
\* ------------------------------------------------------------------------
\* A natural number wider than 31 bits is a sequence of 15-bit limbs, least
\* significant first, without leading zero limbs; zero is <<>>.
LIMB_BITS == 15

LIMB == 32768

\* Bits of a float64 significand
MANTISSA_BITS == 53

\* Fraction bits carried by the quotient of a division before it is rounded
QUOTIENT_BITS == 70

RECURSIVE BigOfInt(_)
BigOfInt(k) == IF k = 0 THEN <<>> ELSE <<k % LIMB>> \o BigOfInt(k \div LIMB)

RECURSIVE BigToInt(_)
BigToInt(a) == IF a = <<>> THEN 0 ELSE a[1] + LIMB * BigToInt(Tail(a))

RECURSIVE BigNorm(_)
BigNorm(a) ==
    IF a = <<>> \/ a[Len(a)] # 0 THEN a ELSE BigNorm(SubSeq(a, 1, Len(a) - 1))

RECURSIVE BigMulCarry(_, _, _)
BigMulCarry(a, m, carry) ==
    IF a = <<>> THEN BigOfInt(carry)
    ELSE LET t == a[1] * m + carry
         IN  <<t % LIMB>> \o BigMulCarry(Tail(a), m, t \div LIMB)

\* a * m for 0 <= m < 2^16
BigMulSmall(a, m) == BigNorm(BigMulCarry(a, m, 0))

RECURSIVE BigAddCarry(_, _, _)
BigAddCarry(a, b, carry) ==
    IF a = <<>> /\ b = <<>> THEN BigOfInt(carry)
    ELSE LET t == (IF a = <<>> THEN 0 ELSE a[1]) + (IF b = <<>> THEN 0 ELSE b[1]) + carry
         IN  <<t % LIMB>> \o BigAddCarry(IF a = <<>> THEN a ELSE Tail(a),
                                         IF b = <<>> THEN b ELSE Tail(b),
                                         t \div LIMB)

BigAdd(a, b) == BigAddCarry(a, b, 0)

RECURSIVE BigSubBorrow(_, _, _)
BigSubBorrow(a, b, borrow) ==
    IF a = <<>> THEN <<>>
    ELSE LET t == a[1] - (IF b = <<>> THEN 0 ELSE b[1]) - borrow
         IN  <<t % LIMB>> \o BigSubBorrow(Tail(a),
                                          IF b = <<>> THEN b ELSE Tail(b),
                                          IF t < 0 THEN 1 ELSE 0)

\* a - b for a >= b
BigSub(a, b) == BigNorm(BigSubBorrow(a, b, 0))

RECURSIVE BigLessFrom(_, _, _)
BigLessFrom(a, b, k) ==
    IF k = 0 THEN FALSE
    ELSE IF a[k] # b[k] THEN a[k] < b[k] ELSE BigLessFrom(a, b, k - 1)

BigLess(a, b) ==
    IF Len(a) # Len(b) THEN Len(a) < Len(b) ELSE BigLessFrom(a, b, Len(a))

BigBitLen(a) ==
    IF a = <<>> THEN 0 ELSE LIMB_BITS * (Len(a) - 1) + Log2(a[Len(a)]) + 1

\* a * 2^k
BigShl(a, k) ==
    IF a = <<>> THEN a
    ELSE [x \in 1..(k \div LIMB_BITS) |-> 0] \o BigMulSmall(a, Pow2(k % LIMB_BITS))

\* floor(a / 2^k)
BigShr(a, k) ==
    LET w  == k \div LIMB_BITS
        b  == Pow2(k % LIMB_BITS)
        hi == IF w >= Len(a) THEN <<>> ELSE SubSeq(a, w + 1, Len(a))
    IN  BigNorm([x \in 1..Len(hi) |->
                    (hi[x] \div b)
                    + (IF x < Len(hi) THEN (hi[x + 1] % b) * (LIMB \div b) ELSE 0)])

\* a mod 2^k
BigLow(a, k) ==
    LET w == k \div LIMB_BITS
        b == Pow2(k % LIMB_BITS)
    IN  BigNorm([x \in 1..Min(Len(a), w + 1) |-> IF x <= w THEN a[x] ELSE a[x] % b])

\* Bit pos (from 0) of a
BigBit(a, pos) ==
    LET w == (pos \div LIMB_BITS) + 1
    IN  IF w > Len(a) THEN 0 ELSE (a[w] \div Pow2(pos % LIMB_BITS)) % 2

RECURSIVE BigDivFrom(_, _, _, _)
BigDivFrom(a, d, k, rem) ==
    IF k = 0 THEN [q |-> <<>>, r |-> rem]
    ELSE LET t    == rem * LIMB + a[k]
             rest == BigDivFrom(a, d, k - 1, t % d)
         IN  [q |-> Append(rest.q, t \div d), r |-> rest.r]

\* Quotient and remainder of a by d, for 0 < d < 2^16
BigDivSmall(a, d) ==
    LET qr == BigDivFrom(a, d, Len(a), 0)
    IN  [q |-> BigNorm(qr.q), r |-> qr.r]

\* The float64 nearest to a natural number a, ties to even: a significand m of
\* at most 53 bits and the number k of low bits dropped; the float is m * 2^k.
Round53(a) ==
    LET bl == BigBitLen(a)
        k  == bl - MANTISSA_BITS
        q  == BigShr(a, k)
        up == /\ BigBit(a, k - 1) = 1
              /\ (BigLow(a, k - 1) # <<>> \/ BigBit(q, 0) = 1)
    IN  IF bl <= MANTISSA_BITS THEN [m |-> a, k |-> 0]
        ELSE [m |-> IF up THEN BigAdd(q, <<1>>) ELSE q, k |-> k]

\* A non-negative float64 is [m, e]: the number m * 2^e.
\* a / b in float64 for integers 0 <= a and 0 < b < 2^16: the quotient with
\* QUOTIENT_BITS fraction bits and one more bit that is set when the division
\* left a remainder, rounded to 53 bits.
float_div(a, b) ==
    LET qr == BigDivSmall(BigShl(BigOfInt(a), QUOTIENT_BITS), b)
        rd == Round53(BigAdd(BigShl(qr.q, 1), IF qr.r = 0 THEN <<>> ELSE <<1>>))
    IN  [m |-> rd.m, e |-> rd.k - QUOTIENT_BITS - 1]

\* k * f in float64 for an integer 0 <= k < 2^16
float_mul_int(f, k) ==
    LET rd == Round53(BigMulSmall(f.m, k))
    IN  [m |-> rd.m, e |-> f.e + rd.k]

\* floor(f) and f - floor(f); the fraction is frac * 2^f.e
float_floor(f) ==
    IF f.e >= 0 THEN [floor |-> BigToInt(BigShl(f.m, f.e)), frac |-> <<>>]
    ELSE [floor |-> BigToInt(BigShr(f.m, -f.e)), frac |-> BigLow(f.m, -f.e)]

\* |y + sd * p| rounded to float64 and truncated toward zero, with its sign,
\* for an integer y and a float p > 0 taken with the sign sd (1 or -1)
float_add_trunc(y, sd, p) ==
    LET sy  == IF y > 0 THEN 1 ELSE IF y < 0 THEN -1 ELSE 0
        ay  == BigShl(BigOfInt(sy * y), -p.e)
        sg  == IF sy = 0 THEN sd
               ELSE IF sy = sd \/ ~BigLess(ay, p.m) THEN sy ELSE sd
        mag == IF sy = 0 THEN p.m
               ELSE IF sy = sd THEN BigAdd(ay, p.m)
               ELSE IF BigLess(ay, p.m) THEN BigSub(p.m, ay) ELSE BigSub(ay, p.m)
        rd  == Round53(mag)
        ev  == p.e + rd.k
    IN  sg * BigToInt(IF ev >= 0 THEN BigShl(rd.m, ev) ELSE BigShr(rd.m, -ev))

\* indices[i] of np.linspace(0, old_len - 1, n), i from 0: i * step with
\* step = (old_len - 1) / (n - 1), and the last index set to old_len - 1.
linspace_index(old_len, n, i) ==
    IF n = 1 \/ i = 0 THEN [m |-> <<>>, e |-> 0]
    ELSE IF i = n - 1 THEN [m |-> BigOfInt(old_len - 1), e |-> 0]
    ELSE float_mul_int(float_div(old_len - 1, n - 1), i)

\* np.interp at one index x over xp = 0, 1, .., old_len - 1, cast to int16:
\* with j = floor(x), the value is samples[j] where x = j or j is the last
\* sample, and else slope * (x - j) + samples[j] with slope the difference of
\* the two neighbours, each product and sum rounded to float64, and the cast
\* truncating toward zero.  x - j is exact.
interp_float(samples, x) ==
    LET ff == float_floor(x)
        j  == ff.floor
        d  == IF j + 2 <= Len(samples) THEN samples[j + 2] - samples[j + 1] ELSE 0
        rd == Round53(BigMulSmall(ff.frac, IF d < 0 THEN -d ELSE d))
        p  == [m |-> rd.m, e |-> x.e + rd.k]
    IN  IF j + 1 >= Len(samples) THEN samples[Len(samples)]
        ELSE IF ff.frac = <<>> \/ d = 0 THEN samples[j + 1]
        ELSE IF p.e >= 0 THEN samples[j + 1] + (IF d < 0 THEN -1 ELSE 1) * BigToInt(BigShl(p.m, p.e))
        ELSE float_add_trunc(samples[j + 1], IF d < 0 THEN -1 ELSE 1, p)

\* Quotient and remainder of a * b by c for 0 <= a < 2^16, 0 <= b < c < 2^16,
\* without a product wider than 31 bits
MulDiv(a, b, c) ==
    LET hi == (a \div 256) * b
        lo == (hi % c) * 256 + (a % 256) * b
    IN  [q |-> (hi \div c) * 256 + (lo \div c), r |-> lo % c]

\* One output sample of np.interp(np.linspace(0, old_len - 1, n), arange, samples)
\* .astype(int16), position i from 0, for clips of fewer than 2^16 samples.
\* The exact index is X = i * (old_len - 1) / (n - 1) and the exact blend is
\* B = samples[j] + d * r / (n - 1), j = floor(X), r = i * (old_len - 1) mod (n - 1).
\* When neither X nor B is an integer, both are at least 1 / (n - 1) > 2^-16
\* away from one, and the float64 index and blend are within 2^-36 and 2^-19
\* of them: the float64 result truncates as B does.  Every other sample is
\* computed in float64 by interp_float, where the rounding decides the result.
interp_sample(samples, n, i) ==
    LET old_len == Len(samples)
        numer   == IF n = 1 THEN 0 ELSE i * (old_len - 1)
        denom   == IF n = 1 THEN 1 ELSE n - 1
        j       == numer \div denom
        r       == numer % denom
        d       == IF r = 0 THEN 0 ELSE samples[j + 2] - samples[j + 1]
        part    == MulDiv(IF d < 0 THEN -d ELSE d, r, denom)
        floorB  == IF d > 0 THEN samples[j + 1] + part.q
                            ELSE samples[j + 1] - part.q - 1
    IN  IF r # 0 /\ part.r # 0
        THEN (IF floorB >= 0 THEN floorB ELSE floorB + 1)
        ELSE interp_float(samples, linspace_index(old_len, n, i))

\* The outcome of speed_up_samples: np.interp raises ValueError ("array of
\* sample points is empty") for an empty clip, whatever the indices; otherwise
\* the call returns the resampled clip.
speed_up_samples(samples, speed_factor) ==
    LET n == new_len(Len(samples), speed_factor)
    IN  IF Len(samples) = 0
        THEN [raises |-> TRUE, samples |-> <<>>]
        ELSE [raises |-> FALSE,
              samples |-> [i \in 1..n |-> interp_sample(samples, n, i - 1)]]

\* ------------------------------------------------------------------------
\* fit_clip_samples
\* ------------------------------------------------------------------------
Truncated(s, n) == IF Len(s) > n THEN SubSeq(s, 1, n) ELSE s

\* The fitter without the final cut to the window.
fit_clip_samples_uncut(samples, window_ms) ==
    LET ws == window_samples(window_ms)
    IN  IF Len(samples) <= ws \/ window_ms < MIN_WINDOW_MS THEN samples
        ELSE speed_up_samples(samples, capped_speed_factor(Len(samples), ws)).samples

\* The fitter without the 200 ms floor.
fit_clip_samples_nofloor(samples, window_ms) ==
    LET ws == window_samples(window_ms)
    IN  IF Len(samples) <= ws THEN samples
        ELSE Truncated(speed_up_samples(samples,
                                        capped_speed_factor(Len(samples), ws)).samples,
                       ws)

\* The call of speed_up_samples is reached with len(samples) > window_samples
\* and window_ms >= 200 only, so with a clip that is not empty: it does not
\* raise, and the fitter goes on with the clip it returns.
fit_clip_samples(samples, window_ms) ==
    LET ws == window_samples(window_ms)
    IN  IF Len(samples) <= ws \/ window_ms < MIN_WINDOW_MS THEN samples
        ELSE Truncated(speed_up_samples(samples,
                                        capped_speed_factor(Len(samples), ws)).samples,
                       ws)

\* ------------------------------------------------------------------------
\* numpy int32 arithmetic (wraps modulo 2^32) and the final clip to int16
\* ------------------------------------------------------------------------
INT32_MIN == -INT32_MAX - 1

\* a + b in int32, for a and b in the int32 range
Int32Add(a, b) ==
    IF a >= 0 /\ b >= 0 /\ a > INT32_MAX - b
    THEN (a - INT32_MAX - 1) + (b - INT32_MAX - 1)
    ELSE IF a < 0 /\ b < 0 /\ a < INT32_MIN - b
         THEN (a + INT32_MAX + 1) + (b + INT32_MAX + 1)
         ELSE a + b

\* s * v in int32, for a sample s in the int16 range and 0 <= v <= INT32_MAX:
\* the low and high 16-bit halves of the two's-complement product.
Int32Mul(s, v) ==
    LET vl == v % 65536
        vh == v \div 65536
        p0 == s * vl
        lo == p0 % 65536
        hi == (s * vh + (p0 \div 65536)) % 65536
    IN  IF hi >= 32768 THEN (hi - 65536) * 65536 + lo ELSE hi * 65536 + lo

\* A clip whose upper bound is one too low
clip_int16_low(x) ==
    IF x < INT16_MIN THEN INT16_MIN ELSE IF x > INT16_MAX - 1 THEN INT16_MAX - 1 ELSE x

\* np.clip(x, -32768, 32767)
clip_int16(x) == IF x < INT16_MIN THEN INT16_MIN ELSE IF x > INT16_MAX THEN INT16_MAX ELSE x

\* ------------------------------------------------------------------------
\* assemble_tts_track: the pieces of one loop iteration
\* ------------------------------------------------------------------------
\* int(SAMPLE_RATE * total_duration_ms / 1000), rounded to nearest instead
total_samples_rounded(total_duration_ms) ==
    (2 * SAMPLE_RATE * total_duration_ms + MS_PER_SECOND) \div (2 * MS_PER_SECOND)

\* int(SAMPLE_RATE * total_duration_ms / 1000)
total_samples(total_duration_ms) ==
    IntOfRatio(SAMPLE_RATE * total_duration_ms, MS_PER_SECOND)

\* int(SAMPLE_RATE * start_ms / 1000)
start_sample(start_ms) == IntOfRatio(SAMPLE_RATE * start_ms, MS_PER_SECOND)

\* samples[:n] for any integer n: a negative n drops the last -n samples
PyPrefix(s, n) ==
    IF n >= 0 THEN SubSeq(s, 1, Min(n, Len(s)))
    ELSE SubSeq(s, 1, Max(Len(s) + n, 0))

\* (sample * volume) / 100 truncated toward zero, in int32
scale_sample_trunc(s, volume_pct) == IntOfRatio(Int32Mul(s, volume_pct), PERCENT)

\* (sample * volume) // 100 on int32: the product wraps, the division floors
scale_sample(s, volume_pct) == Int32Mul(s, volume_pct) \div PERCENT

scale_samples(s, volume_pct) == [k \in 1..Len(s) |-> scale_sample(s[k], volume_pct)]

\* len(canvas[a:b]) for 0 <= a and 0 <= b
SliceLen(n, a, b) == Max(Min(b, n) - Min(a, n), 0)

\* Whether canvas[a:b] += scaled broadcasts: the shapes are equal, or scaled
\* has one element.  Otherwise numpy raises ValueError.
Broadcasts(slice_len, scaled_len) == scaled_len = slice_len \/ scaled_len = 1

\* canvas after canvas[a:b] += scaled
AddAt(cv, a, b, sc) ==
    LET lo == Min(a, Len(cv))
        n  == SliceLen(Len(cv), a, b)
    IN  [j \in 1..Len(cv) |->
            IF j > lo /\ j <= lo + n
            THEN Int32Add(cv[j], sc[IF Len(sc) = 1 THEN 1 ELSE j - lo])
            ELSE cv[j]]

\* The placement of lines 288-292 for a fitted clip: the slice to add, the
\* canvas range, and whether the in-place add broadcasts.
Placement(cv, start_ms, fitted_clip, volume_pct) ==
    LET start == start_sample(start_ms)
        end   == Min(start + Len(fitted_clip), Len(cv))
        sc    == scale_samples(PyPrefix(fitted_clip, end - start), volume_pct)
    IN  [start |-> start, end |-> end, scaled |-> sc,
         ok |-> Broadcasts(SliceLen(Len(cv), start, end), Len(sc))]

\* ------------------------------------------------------------------------
\* mix_audio_tracks: the sample arithmetic of lines 335-344
\* ------------------------------------------------------------------------
\* np.pad(s, (0, n - len(s)))
PadTo(s, n) == [k \in 1..n |-> IF k <= Len(s) THEN s[k] ELSE 0]

\* A mixer that pads the TTS track only and keeps the original's length
mix_audio_tracks_origlen(orig, tts) ==
    [k \in 1..Len(orig) |-> clip_int16(orig[k] + PadTo(tts, Max(Len(orig), Len(tts)))[k])]

mix_audio_tracks(orig, tts) ==
    LET max_len == Max(Len(orig), Len(tts))
        o == IF Len(orig) < max_len THEN PadTo(orig, max_len) ELSE orig
        t == IF Len(tts) < max_len THEN PadTo(tts, max_len) ELSE tts
    IN  [k \in 1..max_len |-> clip_int16(o[k] + t[k])]

\* ------------------------------------------------------------------------
\* Inputs
\* ------------------------------------------------------------------------
SampleValues == {INT16_MIN, -1, 0, 1, INT16_MAX}

RECURSIVE SeqsUpTo(_, _)
SeqsUpTo(S, n) ==
    IF n = 0 THEN {<<>>}
    ELSE LET shorter == SeqsUpTo(S, n - 1)
         IN  shorter \cup {Append(s, x) : s \in {t \in shorter : Len(t) = n - 1}, x \in S}

ShortClips == SeqsUpTo(SampleValues, MaxClipLen)

\* Long clips: a constant one and a sawtooth, of lengths around one, two and
\* three times the window of a 200 ms and a 201 ms cue, and four and ten
\* times it.
ConstClip(n, a) == [k \in 1..n |-> a]

SawClip(n) == [k \in 1..n |-> (((k - 1) * 37) % 201) - 100]

LongLens ==
    UNION {{ws, ws + 1, ws + 22, 2 * ws, 3 * ws - 1, 3 * ws, 3 * ws + 1, 4 * ws,
            10 * ws} :
           ws \in {window_samples(MIN_WINDOW_MS), window_samples(MIN_WINDOW_MS + 1)}}

\* A ramp that wraps, three samples longer than three windows: resampled at
\* 3.0 its exact blends at the indices that are thirds are integers, which the
\* float64 blend falls just short of.
RampClip(n) == [k \in 1..n |-> (3 * (k - 1)) % 30000]

RampLens ==
    {3 * ws + 3 :
        ws \in {window_samples(MIN_WINDOW_MS), window_samples(MIN_WINDOW_MS + 1)}}

LongClips ==
    {ConstClip(n, -3) : n \in LongLens} \cup {SawClip(n) : n \in LongLens}
        \cup {RampClip(n) : n \in RampLens}

FitWindows == {-1, 0, MIN_WINDOW_MS - 1, MIN_WINDOW_MS, MIN_WINDOW_MS + 1}

\* Mixer inputs
MixValues == {INT16_MIN, -1, INT16_MAX}

MixBuffers == SeqsUpTo(MixValues, MaxMixLen)

\* Assembler inputs.  Durations give canvases of 0, 22 and 242 samples; the
\* cue timings start at samples 0, 22 and 44 with windows of 250, 0 and -1 ms.
Durations == {0, 1, 11}

Volumes == {0, 50, 100, 200, 65539}

Timings == {[start_ms |-> 0, end_ms |-> 250],
            [start_ms |-> 1, end_ms |-> 1],
            [start_ms |-> 2, end_ms |-> 1]}

\* Synthesized clips: every sample value of SampleValues in turn (28 samples),
\* full-scale positive (30 samples), and a loud negative clip (45 samples).
\* All are shorter than the 200 ms floor's window, so the assembler's call of
\* fit_clip_samples returns them as they are; the resampling branch is
\* exercised by SpecFit.
CycleClip == [k \in 1..28 |-> <<-1, 1, INT16_MIN, INT16_MAX, 0>>[((k - 1) % 5) + 1]]

TtsClips == {CycleClip, ConstClip(30, INT16_MAX), ConstClip(45, -20000)}

\* What generate_tts_clip leaves behind for one cue: it raised or not, the
\* clip file exists or not, its size in bytes, whether read_wav_samples can
\* read it, and the samples it holds.  A readable file has a 44-byte header
\* and two bytes per sample.
Artifact(raised, exists, size, readable, clip) ==
    [raised |-> raised, exists |-> exists, size |-> size,
     readable |-> readable, clip |-> clip]

TtsRaised == Artifact(TRUE, FALSE, 0, FALSE, <<>>)

NoFile == Artifact(FALSE, FALSE, 0, FALSE, <<>>)

HeaderOnly == Artifact(FALSE, TRUE, 44, TRUE, <<>>)

Corrupt == Artifact(FALSE, TRUE, MIN_CLIP_BYTES, FALSE, <<>>)

GoodArtifacts == {Artifact(FALSE, TRUE, 44 + 2 * Len(c), TRUE, c) : c \in TtsClips}

Artifacts == {TtsRaised, NoFile, HeaderOnly, Corrupt} \cup GoodArtifacts

Cue(t, art) == [start_ms |-> t.start_ms, end_ms |-> t.end_ms, art |-> art]

\* ------------------------------------------------------------------------
\* State
\* ------------------------------------------------------------------------
VARIABLES
    fit_pc,            \* "call" before fit_clip_samples runs, "returned" after
    fit_samples,       \* fit_clip_samples: argument samples
    fit_window_ms,     \* fit_clip_samples: argument window_ms
    fit_result,        \* fit_clip_samples: return value
    asm_pc,            \* assemble_tts_track: "loop", "done" or "raised"
    total_duration_ms, \* assemble_tts_track: argument
    volume,            \* assemble_tts_track: argument
    total,             \* len(events)
    events,            \* events[0:i], each with what its synthesis left behind
    i,                 \* number of loop iterations completed
    canvas,            \* the int32 canvas; after the final clip, the int16 track
    samples,           \* local samples of the last iteration that fitted a clip
    scaled,            \* local scaled of the last iteration that fitted a clip
    mix_pc,            \* "call" before mix_audio_tracks runs, "mixed", "remixed"
    orig_samples,      \* mix_audio_tracks: the original audio
    tts_samples,       \* mix_audio_tracks: the assembled TTS track
    mixed,             \* mix_audio_tracks: the mixed track
    extra_samples,     \* a further buffer mixed onto the mixed track
    remixed            \* the mix of mixed and extra_samples

fit_vars == <<fit_pc, fit_samples, fit_window_ms, fit_result>>

asm_vars == <<asm_pc, total_duration_ms, volume, total, events, i, canvas,
              samples, scaled>>

mix_vars == <<mix_pc, orig_samples, tts_samples, mixed, extra_samples, remixed>>

vars == <<fit_pc, fit_samples, fit_window_ms, fit_result,
          asm_pc, total_duration_ms, volume, total, events, i, canvas,
          samples, scaled,
          mix_pc, orig_samples, tts_samples, mixed, extra_samples, remixed>>

MixIdle ==
    /\ mix_pc = "idle"
    /\ orig_samples = <<>>
    /\ tts_samples = <<>>
    /\ mixed = <<>>
    /\ extra_samples = <<>>
    /\ remixed = <<>>

FitIdle ==
    /\ fit_pc = "idle"
    /\ fit_samples = <<>>
    /\ fit_window_ms = 0
    /\ fit_result = <<>>

AsmIdle ==
    /\ asm_pc = "idle"
    /\ total_duration_ms = 0
    /\ volume = 0
    /\ total = 0
    /\ events = <<>>
    /\ i = 0
    /\ canvas = <<>>
    /\ samples = <<>>
    /\ scaled = <<>>

\* ------------------------------------------------------------------------
\* Clip fitter: one call of fit_clip_samples
\* ------------------------------------------------------------------------
InitFit ==
    /\ fit_pc = "call"
    /\ fit_samples \in ShortClips \cup LongClips
    /\ fit_window_ms \in FitWindows
    /\ fit_result = <<>>
    /\ AsmIdle
    /\ MixIdle

FitReturn ==
    /\ fit_pc = "call"
    /\ fit_result' = fit_clip_samples(fit_samples, fit_window_ms)
    /\ fit_pc' = "returned"
    /\ UNCHANGED <<fit_samples, fit_window_ms>>
    /\ UNCHANGED asm_vars
    /\ UNCHANGED mix_vars

NextFit == FitReturn

SpecFit == InitFit /\ [][NextFit]_vars

\* ------------------------------------------------------------------------
\* Canvas assembler: assemble_tts_track
\* ------------------------------------------------------------------------
\* np.zeros(total_samples, dtype=np.int32); the cue list has `total` cues.
InitAsm ==
    /\ asm_pc = "loop"
    /\ total_duration_ms \in Durations
    /\ volume \in Volumes
    /\ total \in 0..MaxCues
    /\ events = <<>>
    /\ i = 0
    /\ canvas = [j \in 1..total_samples(total_duration_ms) |-> 0]
    /\ samples = <<>>
    /\ scaled = <<>>
    /\ FitIdle
    /\ MixIdle

\* The cue is dropped and the failure ends the pass
SkipCue_aborts(evt) ==
    /\ events' = Append(events, evt)
    /\ asm_pc' = "raised"
    /\ UNCHANGED <<i, total_duration_ms, volume, total, canvas, samples, scaled>>

\* `continue`: the cue is dropped and the loop goes on
SkipCue(evt) ==
    /\ events' = Append(events, evt)
    /\ i' = i + 1
    /\ UNCHANGED <<asm_pc, total_duration_ms, volume, total, canvas, samples, scaled>>

\* lines 271-275: generate_tts_clip raises
CueTtsFails ==
    /\ asm_pc = "loop" /\ i < total
    /\ \E t \in Timings, art \in Artifacts :
          /\ art.raised
          /\ SkipCue(Cue(t, art))
    /\ UNCHANGED <<fit_vars, mix_vars>>

\* lines 277-278: no clip file, or one of fewer than 100 bytes
CueArtifactUnusable ==
    /\ asm_pc = "loop" /\ i < total
    /\ \E t \in Timings, art \in Artifacts :
          /\ ~art.raised
          /\ (~art.exists) \/ art.size < MIN_CLIP_BYTES
          /\ SkipCue(Cue(t, art))
    /\ UNCHANGED <<fit_vars, mix_vars>>

\* lines 280-285: read_wav_samples (or the fitter) raises
CueReadFails ==
    /\ asm_pc = "loop" /\ i < total
    /\ \E t \in Timings, art \in Artifacts :
          /\ ~art.raised /\ art.exists /\ art.size >= MIN_CLIP_BYTES
          /\ ~art.readable
          /\ SkipCue(Cue(t, art))
    /\ UNCHANGED <<fit_vars, mix_vars>>

\* lines 280-294: the clip is read, fitted, scaled and added to the canvas
CuePlaced ==
    /\ asm_pc = "loop" /\ i < total
    /\ \E t \in Timings, art \in Artifacts :
          /\ ~art.raised /\ art.exists /\ art.size >= MIN_CLIP_BYTES
          /\ art.readable
          /\ LET fitted_clip == fit_clip_samples(art.clip, t.end_ms - t.start_ms)
                 p == Placement(canvas, t.start_ms, fitted_clip, volume)
             IN  /\ p.ok
                 /\ samples' = fitted_clip
                 /\ scaled' = p.scaled
                 /\ canvas' = AddAt(canvas, p.start, p.end, p.scaled)
          /\ events' = Append(events, Cue(t, art))
          /\ i' = i + 1
    /\ UNCHANGED <<asm_pc, total_duration_ms, volume, total>>
    /\ UNCHANGED <<fit_vars, mix_vars>>

\* line 292 raises ValueError (shapes do not broadcast); nothing catches it
CuePlacementRaises ==
    /\ asm_pc = "loop" /\ i < total
    /\ \E t \in Timings, art \in Artifacts :
          /\ ~art.raised /\ art.exists /\ art.size >= MIN_CLIP_BYTES
          /\ art.readable
          /\ LET fitted_clip == fit_clip_samples(art.clip, t.end_ms - t.start_ms)
                 p == Placement(canvas, t.start_ms, fitted_clip, volume)
             IN  /\ ~p.ok
                 /\ samples' = fitted_clip
                 /\ scaled' = p.scaled
          /\ events' = Append(events, Cue(t, art))
          /\ asm_pc' = "raised"
    /\ UNCHANGED <<total_duration_ms, volume, total, i, canvas>>
    /\ UNCHANGED <<fit_vars, mix_vars>>

\* lines 298-309: clip the canvas to int16 and write the track
Finish ==
    /\ asm_pc = "loop" /\ i = total
    /\ canvas' = [j \in 1..Len(canvas) |-> clip_int16(canvas[j])]
    /\ asm_pc' = "done"
    /\ UNCHANGED <<total_duration_ms, volume, total, events, i, samples, scaled>>
    /\ UNCHANGED <<fit_vars, mix_vars>>

NextAsm ==
    \/ CueTtsFails
    \/ CueArtifactUnusable
    \/ CueReadFails
    \/ CuePlaced
    \/ CuePlacementRaises
    \/ Finish

SpecAsm == InitAsm /\ [][NextAsm]_vars

\* ------------------------------------------------------------------------
\* Track mixer: mix_audio_tracks, and the mixer applied to its own output
\* ------------------------------------------------------------------------
InitMix ==
    /\ mix_pc = "call"
    /\ orig_samples \in MixBuffers
    /\ tts_samples \in MixBuffers
    /\ mixed = <<>>
    /\ extra_samples = <<>>
    /\ remixed = <<>>
    /\ FitIdle
    /\ AsmIdle

MixTracks ==
    /\ mix_pc = "call"
    /\ mixed' = mix_audio_tracks(orig_samples, tts_samples)
    /\ mix_pc' = "mixed"
    /\ UNCHANGED <<orig_samples, tts_samples, extra_samples, remixed>>
    /\ UNCHANGED <<fit_vars, asm_vars>>

MixAgain ==
    /\ mix_pc = "mixed"
    /\ \E c \in MixBuffers :
          /\ extra_samples' = c
          /\ remixed' = mix_audio_tracks(mixed, c)
    /\ mix_pc' = "remixed"
    /\ UNCHANGED <<orig_samples, tts_samples, mixed>>
    /\ UNCHANGED <<fit_vars, asm_vars>>

NextMix == MixTracks \/ MixAgain

SpecMix == InitMix /\ [][NextMix]_vars

\* ------------------------------------------------------------------------
\* Claims about the clip fitter
\* ------------------------------------------------------------------------
\* C1: for every clip and every window_ms >= 200 the fitted clip has at most
\* floor(22050 * window_ms / 1000) samples, whatever the clip's length.
C1_FitWithinWindow ==
    (fit_pc = "returned" /\ fit_window_ms >= 200)
        => Len(fit_result) <= (22050 * fit_window_ms) \div 1000

\* A clip more than three times its window long has been fitted to the window.
C1_Witness ==
    /\ fit_pc = "returned"
    /\ fit_window_ms >= 200
    /\ Len(fit_samples) > 3 * ((22050 * fit_window_ms) \div 1000)
    /\ Len(fit_result) = (22050 * fit_window_ms) \div 1000

\* C8: the fitter returns its input unchanged whenever window_ms < 200
\* (zero and negative windows included, whatever the clip's length) and
\* whenever the clip has at most window_samples samples.
C8_FitUnchanged ==
    (/\ fit_pc = "returned"
     /\ \/ fit_window_ms < 200
        \/ Len(fit_samples) <= window_samples(fit_window_ms))
        => fit_result = fit_samples

\* A long clip with a negative window came back unchanged.
C8_Witness ==
    /\ fit_pc = "returned"
    /\ fit_window_ms < 0
    /\ Len(fit_samples) > 4 * window_samples(MIN_WINDOW_MS - 1)
    /\ fit_result = fit_samples

\* C11: the speed factor never exceeds 3.0: for window_ms >= 200 and a clip
\* longer than 3 * window_samples the clip is resampled to floor(clip_len / 3)
\* samples and cut, so the result has exactly window_samples samples, which
\* are the first window_samples samples of the 3.0x-resampled clip.
C11_CappedAtThree ==
    (/\ fit_pc = "returned"
     /\ fit_window_ms >= 200
     /\ Len(fit_samples) > 3 * ((22050 * fit_window_ms) \div 1000))
        => LET ws    == (22050 * fit_window_ms) \div 1000
               three == [num |-> 3, den |-> 1]
               sped  == speed_up_samples(fit_samples, three).samples
           IN  /\ Len(sped) = Len(fit_samples) \div 3
               /\ Len(sped) >= ws
               /\ Len(fit_result) = ws
               /\ \A k \in 1..ws : fit_result[k] = sped[k]

\* A sawtooth clip ten times its window long was fitted: the result is a
\* third of the way through the clip at its last sample, not at the clip's end.
C11_Witness ==
    /\ fit_pc = "returned"
    /\ fit_window_ms = 200
    /\ Len(fit_samples) = 10 * window_samples(200)
    /\ fit_samples[2] # fit_samples[1]
    /\ Len(fit_result) = window_samples(200)
    /\ fit_result[Len(fit_result)] # fit_samples[Len(fit_samples)]

\* ------------------------------------------------------------------------
\* Claims about the canvas assembler
\* ------------------------------------------------------------------------
Readable(art) ==
    (~art.raised) /\ art.exists /\ art.size >= MIN_CLIP_BYTES /\ art.readable

FittedClip(evt) == fit_clip_samples(evt.art.clip, evt.end_ms - evt.start_ms)

\* floor(s * v / 100) and s * v / 100 truncated toward zero, in unbounded
\* arithmetic (v = 100 * a + b keeps every intermediate value small)
ExactFloorScale(s, v) == s * (v \div 100) + ((s * (v % 100)) \div 100)

ExactTruncScale(s, v) ==
    IF s >= 0 THEN ExactFloorScale(s, v) ELSE -ExactFloorScale(-s, v)

\* s * v reduced to a signed 32-bit value, by adding up products that fit
RECURSIVE WrappedProduct(_, _)
WrappedProduct(s, v) ==
    IF v <= 65535 THEN s * v
    ELSE Int32Add(s * 65535, WrappedProduct(s, v - 65535))

\* The exact contribution of cue evt to canvas index j (1-based)
Contribution(evt, j, v) ==
    LET clip  == FittedClip(evt)
        start == (22050 * evt.start_ms) \div 1000
    IN  IF Readable(evt.art) /\ j - start >= 1 /\ j - start <= Len(clip)
        THEN ExactFloorScale(clip[j - start], v)
        ELSE 0

RECURSIVE ExactSum(_, _, _, _)
ExactSum(evts, k, j, v) ==
    IF k > Len(evts) THEN 0
    ELSE Contribution(evts[k], j, v) + ExactSum(evts, k + 1, j, v)

\* C2: for every start offset and clip length the assembler adds exactly the
\* scaled samples whose target index lies in [0, canvas_len), changes no other
\* canvas entry and goes on to the next cue, also when start_sample is equal
\* to or greater than canvas_len.
C2_InBoundsPrefixAdded ==
    [][(asm_pc = "loop" /\ i < total /\ Readable(events'[Len(events')].art))
         => LET evt   == events'[Len(events')]
                clip  == FittedClip(evt)
                start == (22050 * evt.start_ms) \div 1000
            IN  /\ asm_pc' = "loop"
                /\ i' = i + 1
                /\ Len(canvas') = Len(canvas)
                /\ \A j \in 1..Len(canvas) :
                      canvas'[j] =
                          IF j - start >= 1 /\ j - start <= Len(clip)
                          THEN Int32Add(canvas[j], scale_sample(clip[j - start], volume))
                          ELSE canvas[j]]_vars

\* C3 as stated: every scaled sample is sample * volume_pct / 100 truncated
\* toward zero, negative samples included.
C3_ScaledTruncates ==
    \A k \in 1..Len(scaled) : scaled[k] = ExactTruncScale(samples[k], volume)

\* C3 as amended: every scaled sample is floor(P / 100), rounded toward minus
\* infinity, where P is sample * volume_pct as a signed 32-bit value (the
\* exact product for volume_pct <= 65535).
C3_ScaledFloors ==
    \A k \in 1..Len(scaled) :
        /\ scaled[k] = WrappedProduct(samples[k], volume) \div 100
        /\ volume <= 65535 => scaled[k] = ExactFloorScale(samples[k], volume)

\* Sample -1 at volume 50 has contributed -1.
C3_Witness ==
    /\ asm_pc = "done"
    /\ volume = 50
    /\ \E k \in 1..Len(scaled) : samples[k] = -1 /\ scaled[k] = -1

\* C4 as stated: the canvas has round(22050 * duration_ms / 1000) samples.
C4_CanvasLenRounded ==
    asm_pc \in {"loop", "done", "raised"}
        => Len(canvas) = LET n == 22050 * total_duration_ms
                             q == n \div 1000
                             r == n % 1000
                         IN  IF r > 500 \/ (r = 500 /\ q % 2 = 1) THEN q + 1 ELSE q

\* C4 as amended: from allocation to the end of the pass the canvas has
\* floor(22050 * duration_ms / 1000) samples, whatever the cue list is.
C4_CanvasLenFloor ==
    asm_pc \in {"loop", "done", "raised"}
        => Len(canvas) = (22050 * total_duration_ms) \div 1000

\* An 11 ms track (242.55 samples) was assembled from two cues, one placed.
C4_Witness ==
    /\ asm_pc = "done"
    /\ total_duration_ms = 11
    /\ i = 2
    /\ Len(canvas) = 242
    /\ \E j \in 1..Len(canvas) : canvas[j] # 0

\* C5: after assembly every output sample is clamp(S, -32768, 32767), S the
\* sum of the scaled contributions of all clips covering that index.
C5_OutputIsClampedSum ==
    asm_pc = "done"
        => \A j \in 1..Len(canvas) :
              canvas[j] = clip_int16(ExactSum(events, 1, j, volume))

\* C6: the 32-bit intermediates never wrap: every scaled sample and every
\* canvas sum is the mathematically exact value.
C6_NoWrap ==
    /\ \A k \in 1..Len(scaled) : scaled[k] = ExactFloorScale(samples[k], volume)
    /\ asm_pc = "loop"
         => \A j \in 1..Len(canvas) : canvas[j] = ExactSum(events, 1, j, volume)

\* The pass over the cues that were read successfully, in order: the canvas
\* and whether a placement raised.
RECURSIVE PassOver(_, _, _, _)
PassOver(cv, evts, k, v) ==
    IF k > Len(evts) THEN [pc |-> "loop", canvas |-> cv]
    ELSE LET p == Placement(cv, evts[k].start_ms, FittedClip(evts[k]), v)
         IN  IF p.ok THEN PassOver(AddAt(cv, p.start, p.end, p.scaled), evts, k + 1, v)
             ELSE [pc |-> "raised", canvas |-> cv]

IsReadable(evt) == Readable(evt.art)

\* C7: a cue whose synthesis raises, whose artifact is missing or smaller
\* than 100 bytes, or whose read raises leaves the canvas unchanged and does
\* not stop the pass: the canvas is always the one the cue list without the
\* failed cues gives, and the pass ends having visited every cue.
C7_FailedCuesSkipped ==
    asm_pc \in {"loop", "done", "raised"}
        => LET zero == [j \in 1..((22050 * total_duration_ms) \div 1000) |-> 0]
               ref  == PassOver(zero, SelectSeq(events, IsReadable), 1, volume)
           IN  /\ (asm_pc = "raised") = (ref.pc = "raised")
               /\ asm_pc # "done" => canvas = ref.canvas
               /\ asm_pc = "done"
                    => /\ Len(events) = total
                       /\ canvas = [j \in 1..Len(ref.canvas) |-> clip_int16(ref.canvas[j])]
               /\ asm_pc = "loop" => i = Len(events)

\* A failed cue was followed by a placed one and the track holds the latter.
C7_Witness ==
    /\ asm_pc = "done"
    /\ total = 2
    /\ ~Readable(events[1].art)
    /\ Readable(events[2].art)
    /\ \E j \in 1..Len(canvas) : canvas[j] # 0

\* ------------------------------------------------------------------------
\* Claims about the track mixer
\* ------------------------------------------------------------------------
\* Sample k of a buffer read as zero past its end
At(s, k) == IF k <= Len(s) THEN s[k] ELSE 0

Clamp16(x) == IF x < -32768 THEN -32768 ELSE IF x > 32767 THEN 32767 ELSE x

LongestOf(a, b) == IF Len(a) >= Len(b) THEN Len(a) ELSE Len(b)

\* C9: mix(A, B) and mix(B, A) both have length max(len(A), len(B)) and are
\* equal sample for sample, each sample being clamp(a_i + b_i, -32768, 32767)
\* with the shorter buffer read as zero past its end.
C9_MixCommutes ==
    mix_pc \in {"mixed", "remixed"}
        => LET swapped == mix_audio_tracks(tts_samples, orig_samples)
               n == LongestOf(orig_samples, tts_samples)
           IN  /\ Len(mixed) = n
               /\ Len(swapped) = n
               /\ \A k \in 1..n :
                     /\ mixed[k] = swapped[k]
                     /\ mixed[k] = Clamp16(At(orig_samples, k) + At(tts_samples, k))

\* Two non-empty buffers of unequal length were mixed and a sum saturated.
C9_Witness ==
    /\ mix_pc = "mixed"
    /\ Len(orig_samples) > 0
    /\ Len(tts_samples) > Len(orig_samples)
    /\ orig_samples[1] + tts_samples[1] > 32767
    /\ mixed[1] = 32767
    /\ mixed[Len(tts_samples)] = tts_samples[Len(tts_samples)]

\* C10 as stated: mix(mix(A, B), C) equals mix(A, mix(B, C)) sample for
\* sample, for all buffers A, B and C.
C10_MixAssociates ==
    mix_pc = "remixed"
        => remixed = mix_audio_tracks(orig_samples,
                                      mix_audio_tracks(tts_samples, extra_samples))

\* No partial sum a_k + b_k or b_k + c_k leaves the int16 range
NoPartialSaturation ==
    \A k \in 1..LongestOf(tts_samples, IF Len(orig_samples) >= Len(extra_samples)
                                       THEN orig_samples ELSE extra_samples) :
        /\ At(orig_samples, k) + At(tts_samples, k) = Clamp16(At(orig_samples, k) + At(tts_samples, k))
        /\ At(tts_samples, k) + At(extra_samples, k) = Clamp16(At(tts_samples, k) + At(extra_samples, k))

\* C10 as amended: mix(mix(A, B), C) equals mix(A, mix(B, C)) sample for
\* sample whenever no partial sum a_k + b_k or b_k + c_k saturates; both are
\* then clamp(a_k + b_k + c_k).
C10_MixAssociatesUnsaturated ==
    (mix_pc = "remixed" /\ NoPartialSaturation)
        => LET right == mix_audio_tracks(orig_samples,
                                         mix_audio_tracks(tts_samples, extra_samples))
           IN  /\ remixed = right
               /\ \A k \in 1..Len(remixed) :
                     remixed[k] = Clamp16(At(orig_samples, k) + At(tts_samples, k)
                                          + At(extra_samples, k))

\* Three buffers of different lengths were mixed without a saturating partial
\* sum, and the three-way sum saturates.
C10_Witness ==
    /\ mix_pc = "remixed"
    /\ NoPartialSaturation
    /\ Len(orig_samples) = 2 /\ Len(tts_samples) = 1 /\ Len(extra_samples) = 2
    /\ orig_samples[1] + tts_samples[1] + extra_samples[1] > 32767
    /\ remixed[1] = 32767

====
